---- MODULE Spec2Model ----
(***************************************************************************)
(* Model of MexcSpotProxy (src/src/proxy/mexc_spot.py): the per-key candle *)
(* cache __data, the historical loader task, the socket set-up, the socket *)
(* message handler and the get_candles query.                              *)
(*                                                                         *)
(* A DataFrame is a sequence of rows; a row is a record whose field        *)
(* open_datetime is the index label (milliseconds since the epoch) and     *)
(* whose other fields are the six columns.  OHLCV cells are strings: the   *)
(* raw text of the REST batch ("10"), the float it parses to ("10.0"), the *)
(* value a socket message carries, or NaN for a missing cell.              *)
(***************************************************************************)
EXTENDS Integers, Sequences, FiniteSets, TLC

VARIABLES data, pc, i, ping_task, pending_subs, subscribed, events, handled, call,
          transport, last, push_task, held

vars == <<data, pc, i, ping_task, pending_subs, subscribed, events, handled, call,
          transport, last, push_task, held>>

(***************************************************************************)
(* Bounds of the model.                                                    *)
(***************************************************************************)
\* tail(500) of the live merge, scaled down so that eviction is reachable
TailCount == 2
\* longest historical batch the history source returns
MaxBatch == 3
\* number of socket messages delivered to the handler
MaxMsgs == 3
\* largest count passed to get_candles
MaxCount == 2

(***************************************************************************)
(* Construction arguments.                                                 *)
(***************************************************************************)
exchange_name == "mexc"

\* the dict built by __init__, in insertion order
symbols_config ==
    << [symbol |-> "BTCUSDT", timeframes |-> <<"1m">>, aliases |-> <<"XBT", "ETHUSDT">>],
       [symbol |-> "ETHUSDT", timeframes |-> <<"5m">>, aliases |-> <<"ETH", "XBT">>] >>

NaN == "NaN"

isna(x) == x = NaN

SeqToSet(s) == { s[j] : j \in 1..Len(s) }

(***************************************************************************)
(* Timeframe codec.                                                        *)
(***************************************************************************)
Timeframes == {"1m", "5m", "15m", "30m", "60m", "4h", "1d", "1M"}

Intervals == {"Min1", "Min5", "Min15", "Min30", "Min60", "Hour4", "Day1", "Month1"}

\* "KeyError" stands for the exception the dict lookup raises
get_socket_interval_from_timeframe(timeframe) ==
    CASE timeframe = "1m"  -> "Min1"
      [] timeframe = "5m"  -> "Min5"
      [] timeframe = "15m" -> "Min15"
      [] timeframe = "30m" -> "Min30"
      [] timeframe = "60m" -> "Min60"
      [] timeframe = "4h"  -> "Hour4"
      [] timeframe = "1d"  -> "Day1"
      [] timeframe = "1M"  -> "Month1"
      [] OTHER -> "KeyError"

\* the fault of naming the hour the way the REST interface does
get_timeframe_from_socket_interval_1h(interval) ==
    CASE interval = "Min1"   -> "1m"
      [] interval = "Min5"   -> "5m"
      [] interval = "Min15"  -> "15m"
      [] interval = "Min30"  -> "30m"
      [] interval = "Min60"  -> "1h"
      [] interval = "Hour4"  -> "4h"
      [] interval = "Day1"   -> "1d"
      [] interval = "Month1" -> "1M"
      [] OTHER -> "KeyError"

get_timeframe_from_socket_interval(interval) ==
    CASE interval = "Min1"   -> "1m"
      [] interval = "Min5"   -> "5m"
      [] interval = "Min15"  -> "15m"
      [] interval = "Min30"  -> "30m"
      [] interval = "Min60"  -> "60m"
      [] interval = "Hour4"  -> "4h"
      [] interval = "Day1"   -> "1d"
      [] interval = "Month1" -> "1M"
      [] OTHER -> "KeyError"

(***************************************************************************)
(* Symbol registry.                                                        *)
(***************************************************************************)
NotFound == [symbol |-> "None", timeframes |-> <<>>, aliases |-> <<>>]

RECURSIVE alias_scan_last_wins(_, _)
\* the fault of a scan that does not stop at the first symbol listing the name
alias_scan_last_wins(symbol_name, j) ==
    IF j > Len(symbols_config) THEN NotFound
    ELSE IF alias_scan_last_wins(symbol_name, j + 1) # NotFound
    THEN alias_scan_last_wins(symbol_name, j + 1)
    ELSE IF symbol_name \in SeqToSet(symbols_config[j].aliases) THEN symbols_config[j]
    ELSE NotFound

RECURSIVE alias_scan(_, _)
\* the for loop of __get_symbol_config from position j on
alias_scan(symbol_name, j) ==
    IF j > Len(symbols_config) THEN NotFound
    ELSE IF symbol_name \in SeqToSet(symbols_config[j].aliases) THEN symbols_config[j]
    ELSE alias_scan(symbol_name, j + 1)

get_symbol_config(symbol_name) ==
    IF \E j \in 1..Len(symbols_config) : symbols_config[j].symbol = symbol_name
    THEN symbols_config[CHOOSE j \in 1..Len(symbols_config) : symbols_config[j].symbol = symbol_name]
    ELSE alias_scan(symbol_name, 1)

(***************************************************************************)
(* DataFrame helpers.                                                      *)
(***************************************************************************)
\* pd.to_datetime(t, unit='ms') and pd.to_datetime(t, unit='s'), in milliseconds
to_datetime_ms(t) == t

to_datetime_s(t) == t * 1000

\* str(Timestamp): the text form of the instant
str(dt) == <<"Timestamp text", dt>>

\* the fault of keeping the oldest rows: DataFrame.head(n)
tail_keeps_oldest(df, n) ==
    IF n = 0 THEN <<>>
    ELSE IF n > 0 THEN SubSeq(df, 1, (IF Len(df) > n THEN n ELSE Len(df)))
    ELSE SubSeq(df, 1, (IF Len(df) > -n THEN Len(df) + n ELSE 0))

\* DataFrame.tail(n)
tail(df, n) ==
    IF n = 0 THEN <<>>
    ELSE IF n > 0 THEN SubSeq(df, (IF Len(df) > n THEN Len(df) - n + 1 ELSE 1), Len(df))
    ELSE SubSeq(df, (IF Len(df) > -n THEN 1 - n ELSE Len(df) + 1), Len(df))

RECURSIVE SortedLabels(_)
\* the sorted union index an outer alignment produces
SortedLabels(S) ==
    IF S = {} THEN <<>>
    ELSE LET m == CHOOSE x \in S : \A y \in S : x <= y
         IN  <<m>> \o SortedLabels(S \ {m})

\* cell of the frame at an index label after reindexing to the union index
Cell(df, label, col) ==
    IF \E j \in 1..Len(df) : df[j].open_datetime = label
    THEN df[CHOOSE j \in 1..Len(df) : df[j].open_datetime = label][col]
    ELSE NaN

\* combine_first cell rule: the caller's value unless it is missing
Combiner(x, y) == IF isna(x) THEN y ELSE x

TsCell(df, label) ==
    df[CHOOSE j \in 1..Len(df) : df[j].open_datetime = label].open_timestamp

\* row.combine_first(df)
combine_first(row, df) ==
    LET labels == SortedLabels({ row[j].open_datetime : j \in 1..Len(row) }
                               \cup { df[j].open_datetime : j \in 1..Len(df) })
        InRow(l) == \E j \in 1..Len(row) : row[j].open_datetime = l
    IN  [ n \in 1..Len(labels) |->
            LET l == labels[n]
            IN  [ open_datetime  |-> l,
                  open_timestamp |-> IF InRow(l) THEN TsCell(row, l) ELSE TsCell(df, l),
                  open   |-> Combiner(Cell(row, l, "open"), Cell(df, l, "open")),
                  high   |-> Combiner(Cell(row, l, "high"), Cell(df, l, "high")),
                  low    |-> Combiner(Cell(row, l, "low"), Cell(df, l, "low")),
                  close  |-> Combiner(Cell(row, l, "close"), Cell(df, l, "close")),
                  volume |-> Combiner(Cell(row, l, "volume"), Cell(df, l, "volume")) ] ]

(***************************************************************************)
(* Historical data.                                                        *)
(***************************************************************************)
\* astype('float') of a raw text cell; "ValueError" when it is not a number
astype_float(s) ==
    CASE s = "10" -> "10.0"
      [] s = "12" -> "12.0"
      [] s = "9"  -> "9.0"
      [] s = "11" -> "11.0"
      [] s = "5"  -> "5.0"
      [] OTHER -> "ValueError"

\* one raw kline record of the REST batch: eight fields
RawKline(t) == <<t, "10", "12", "9", "11", "5", t + 999, "55">>

BadKline(t) == <<t, "10", "12", "9", "n/a", "5", t + 999, "55">>

\* the batch of n bars the history source returns, oldest first
RawBatch(n) == [ j \in 1..n |-> RawKline(1000 * j) ]

\* what awaiting get_klines can produce
FetchOutcomes ==
    { [raised |-> FALSE, klines |-> RawBatch(n)] : n \in {0, 1, MaxBatch} }
    \cup { [raised |-> FALSE, klines |-> <<BadKline(1000)>>] }
    \cup { [raised |-> TRUE, klines |-> <<>>] }

\* an exception leaving the coroutine
Raised == [raised |-> TRUE, df |-> <<>>]

Returned(df) == [raised |-> FALSE, df |-> df]

parse_dataframe(df_klines) ==
    IF \E j \in 1..Len(df_klines) :
          \E c \in 2..6 : astype_float(df_klines[j][c]) = "ValueError"
    THEN Raised
    ELSE Returned([ j \in 1..Len(df_klines) |->
             [ open_datetime  |-> to_datetime_ms(df_klines[j][1]),
               open_timestamp |-> df_klines[j][1],
               open   |-> astype_float(df_klines[j][2]),
               high   |-> astype_float(df_klines[j][3]),
               low    |-> astype_float(df_klines[j][4]),
               close  |-> astype_float(df_klines[j][5]),
               volume |-> astype_float(df_klines[j][6]) ] ])

\* __fetch_kline once get_klines has answered
fetch_kline(outcome) ==
    IF outcome.raised THEN Raised
    ELSE IF Len(outcome.klines) = 0 THEN Raised   \* df.columns[[6, 7]] on no columns
    ELSE parse_dataframe([ j \in 1..Len(outcome.klines) |-> SubSeq(outcome.klines[j], 1, 6) ])

RECURSIVE KeysFrom(_)
\* the (symbol, timeframe) pairs in the order of the two nested loops
KeysFrom(j) ==
    IF j > Len(symbols_config) THEN <<>>
    ELSE [ n \in 1..Len(symbols_config[j].timeframes) |->
             <<symbols_config[j].symbol, symbols_config[j].timeframes[n]>> ]
         \o KeysFrom(j + 1)

ConfiguredKeys == KeysFrom(1)

Put(d, key, df) == [ k \in DOMAIN d \cup {key} |-> IF k = key THEN df ELSE d[k] ]

NoCall ==
    [made |-> FALSE, name |-> "", timeframe |-> "", count |-> 0,
     raised |-> FALSE, success |-> FALSE, message |-> "", result |-> <<>>]

\* no handler invocation yet
NoMsg == [msg |-> [msg |-> "none"], raised |-> FALSE]

NoKey == <<>>

\* the caller holds no frame
NoHeld == [rows |-> <<>>, view |-> NoKey]

Init ==
    /\ transport = "closed"
    /\ last = NoMsg
    /\ push_task = "none"
    /\ held = NoHeld
    /\ data = << >>
    /\ pc = IF Len(ConfiguredKeys) = 0 THEN "init" ELSE "fetch"
    /\ i = 1
    /\ ping_task = FALSE
    /\ pending_subs = <<>>
    /\ subscribed = {}
    /\ events = <<>>
    /\ handled = 0
    /\ call = NoCall

\* the fault of connecting as soon as the first fetch has answered
PrepareHistoricalData_connects_early ==
    /\ ~call.made
    /\ pc = "fetch"
    /\ \E outcome \in FetchOutcomes :
         LET fetched == fetch_kline(outcome)
         IN  IF fetched.raised
             THEN /\ pc' = "crashed"
                  /\ UNCHANGED <<data, i>>
             ELSE /\ data' = Put(data, ConfiguredKeys[i], fetched.df)
                  /\ i' = i + 1
                  /\ pc' = "init"
    /\ UNCHANGED call
    /\ UNCHANGED <<ping_task, pending_subs, subscribed, events, handled>>
    /\ UNCHANGED <<transport, last, push_task, held>>

\* one turn of the loops of __prepare_historical_data: the fetch answers
PrepareHistoricalData ==
    /\ ~call.made
    /\ pc = "fetch"
    /\ \E outcome \in FetchOutcomes :
         LET fetched == fetch_kline(outcome)
         IN  IF fetched.raised
             THEN /\ pc' = "crashed"
                  /\ UNCHANGED <<data, i>>
             ELSE /\ data' = Put(data, ConfiguredKeys[i], fetched.df)
                  /\ i' = i + 1
                  /\ pc' = IF i = Len(ConfiguredKeys) THEN "init" ELSE "fetch"
    /\ UNCHANGED call
    /\ UNCHANGED <<ping_task, pending_subs, subscribed, events, handled>>
    /\ UNCHANGED <<transport, last, push_task, held>>

RECURSIVE AllTimeframesFrom(_)
AllTimeframesFrom(j) ==
    IF j > Len(symbols_config) THEN <<>>
    ELSE symbols_config[j].timeframes \o AllTimeframesFrom(j + 1)

RECURSIVE CrossFrom(_)
CrossFrom(j) ==
    IF j > Len(symbols_config) THEN <<>>
    ELSE [ n \in 1..Len(AllTimeframesFrom(1)) |->
             [symbol |-> symbols_config[j].symbol,
              interval |-> get_socket_interval_from_timeframe(AllTimeframesFrom(1)[n])] ]
         \o CrossFrom(j + 1)

\* the fault of subscribing every symbol for the timeframes of every symbol
Streams_every_timeframe == CrossFrom(1)

\* the topics built by __connect_to_data_streams
Streams ==
    [ n \in 1..Len(ConfiguredKeys) |->
        [symbol |-> ConfiguredKeys[n][1],
         interval |-> get_socket_interval_from_timeframe(ConfiguredKeys[n][2])] ]

\* socket_client.init() answers; ping task and subscribe tasks are created
ConnectToDataStreams ==
    /\ ~call.made
    /\ pc = "init"
    /\ \E ok \in BOOLEAN :
         IF ok /\ \A n \in 1..Len(Streams) : Streams[n].interval # "KeyError"
         THEN /\ ping_task' = TRUE
              /\ pending_subs' = Streams
              /\ pc' = "done"
              /\ transport' = "open"
         ELSE /\ pc' = "crashed"
              /\ ping_task' = ok
              /\ transport' = IF ok THEN "open" ELSE "closed"
              /\ UNCHANGED pending_subs
    /\ UNCHANGED call
    /\ UNCHANGED <<data, i, subscribed, events, handled>>
    /\ UNCHANGED <<last, push_task, held>>

\* one task created by __subscribe_to_topics runs
KlineSubscribe ==
    /\ ~call.made
    /\ pending_subs # <<>>
    /\ subscribed' = subscribed \cup {Head(pending_subs)}
    /\ pending_subs' = Tail(pending_subs)
    /\ UNCHANGED call
    /\ UNCHANGED <<data, pc, i, ping_task, events, handled>>
    /\ UNCHANGED <<transport, last, push_task, held>>

(***************************************************************************)
(* Socket messages.                                                        *)
(***************************************************************************)
MsgSymbols == {"BTCUSDT", "XRPUSDT"}

MsgIntervals == {"Min1"}

\* open times of live bars, in seconds
LiveTimestamps == {1, 2, 2000}

\* the bar still in progress, pushed before its volume is known
OpenBar == 2000

Klines ==
    { [t |-> t, o |-> "20.5", h |-> "22.5", l |-> "19.5", c |-> "21.5", v |-> "7.5"] :
        t \in LiveTimestamps }
    \cup { [t |-> OpenBar, o |-> "30.5", h |-> "32.5", l |-> "29.5", c |-> "31.5", v |-> NaN] }

\* a kline push; c is the channel text split at '@'
KlineMsgs ==
    { [c |-> <<"spot", "public.kline.v3.api", s, iv>>, d |-> [k |-> k]] :
        s \in MsgSymbols, iv \in MsgIntervals, k \in Klines }

\* the keepalive acknowledgment and a payload of no known kind
OtherMsgs == { [msg |-> "PONG"], [msg |-> "no such channel"] }

\* a kline push on a channel whose interval code the codec does not know
BadIntervalMsgs ==
    { [c |-> <<"spot", "public.kline.v3.api", "BTCUSDT", "Min2">>,
       d |-> [k |-> [t |-> 1, o |-> "20.5", h |-> "22.5", l |-> "19.5", c |-> "21.5", v |-> "7.5"]]] }

Msgs == KlineMsgs \cup BadIntervalMsgs \cup OtherMsgs

handle_data_event_row(kline) ==
    << [ open_datetime  |-> to_datetime_s(kline.t),
         open_timestamp |-> kline.t,
         open |-> kline.o, high |-> kline.h, low |-> kline.l,
         close |-> kline.c, volume |-> kline.v ] >>

\* the fault of filling close from the open of the kline
handle_data_event_candle_stale_close(kline) ==
    [ open_timestamp |-> kline.t,
      open_datetime  |-> str(to_datetime_s(kline.t)),
      open |-> kline.o, high |-> kline.h, low |-> kline.l,
      close |-> kline.o, volume |-> kline.v ]

handle_data_event_candle(kline) ==
    [ open_timestamp |-> kline.t,
      open_datetime  |-> str(to_datetime_s(kline.t)),
      open |-> kline.o, high |-> kline.h, low |-> kline.l,
      close |-> kline.c, volume |-> kline.v ]

\* the fault of trimming every series of the store on a merge
merge_trims_every_series(d, key, row) ==
    LET merged == IF key \in DOMAIN d
                  THEN Put(d, key, combine_first(row, d[key]))
                  ELSE Put(d, key, row)
    IN  [ k \in DOMAIN merged |-> tail(merged[k], TailCount) ]

\* the store after __handle_data_event has merged the row
merge(d, key, row) ==
    IF key \in DOMAIN d
    THEN Put(d, key, tail(combine_first(row, d[key]), TailCount))
    ELSE Put(d, key, row)

handle_data_event(msg) ==
    LET symbol    == msg.c[3]
        interval  == msg.c[4]
        timeframe == get_timeframe_from_socket_interval(interval)
        kline     == msg.d.k
    IN  IF timeframe = "KeyError"
        THEN \* the KeyError leaves the callback; the stream source, which called
             \* it, either goes on dispatching or stops
             /\ UNCHANGED <<data, events, push_task>>
             /\ last' = [msg |-> msg, raised |-> TRUE]
             /\ transport' \in {"open", "faulted"}
        ELSE /\ data' = merge(data, <<symbol, timeframe>>, handle_data_event_row(kline))
             /\ events' = Append(events, [exchange |-> exchange_name, symbol |-> symbol,
                                          timeframe |-> timeframe,
                                          candle |-> handle_data_event_candle(kline)])
             /\ push_task' = "pending"
             /\ last' = [msg |-> msg, raised |-> FALSE]
             /\ UNCHANGED transport

\* the fault of a handler that waits for the pending push before the next message
HandleSocketMessage_awaits_push ==
    /\ ~call.made
    /\ push_task # "pending"
    /\ transport = "open"
    /\ subscribed # {}
    /\ handled < MaxMsgs
    /\ \E msg \in Msgs :
         IF "c" \in DOMAIN msg /\ msg.c[1] = "spot" /\ msg.c[2] = "public.kline.v3.api"
         THEN handle_data_event(msg)
         ELSE /\ UNCHANGED <<data, events, push_task, transport>>
              /\ last' = [msg |-> msg, raised |-> FALSE]
    /\ handled' = handled + 1
    /\ UNCHANGED call
    /\ UNCHANGED <<pc, i, ping_task, pending_subs, subscribed, held>>

\* the fault of a handler that raises on a payload it does not recognise
HandleSocketMessage_raises_on_unknown ==
    /\ ~call.made
    /\ transport = "open"
    /\ subscribed # {}
    /\ handled < MaxMsgs
    /\ \E msg \in Msgs :
         IF "c" \in DOMAIN msg /\ msg.c[1] = "spot" /\ msg.c[2] = "public.kline.v3.api"
         THEN handle_data_event(msg)
         ELSE /\ UNCHANGED <<data, events, push_task>>
              /\ last' = [msg |-> msg, raised |-> msg.msg # "PONG"]
              /\ transport' = IF msg.msg = "PONG" THEN "open" ELSE "faulted"
    /\ handled' = handled + 1
    /\ UNCHANGED call
    /\ UNCHANGED <<pc, i, ping_task, pending_subs, subscribed, held>>

HandleSocketMessage ==
    /\ ~call.made
    /\ transport = "open"
    /\ subscribed # {}
    /\ handled < MaxMsgs
    /\ \E msg \in Msgs :
         IF "c" \in DOMAIN msg /\ msg.c[1] = "spot" /\ msg.c[2] = "public.kline.v3.api"
         THEN handle_data_event(msg)
         ELSE /\ UNCHANGED <<data, events, push_task, transport>>
              /\ last' = [msg |-> msg, raised |-> FALSE]
    /\ handled' = handled + 1
    /\ UNCHANGED call
    /\ UNCHANGED <<pc, i, ping_task, pending_subs, subscribed, held>>

\* the task created at line 154 runs: push_data_event_func returns or raises
PushDataEvent ==
    /\ ~call.made
    /\ push_task = "pending"
    /\ push_task' \in {"done", "failed"}
    /\ UNCHANGED <<data, pc, i, ping_task, pending_subs, subscribed, events, handled, call>>
    /\ UNCHANGED <<transport, last, held>>

(***************************************************************************)
(* Query.                                                                  *)
(***************************************************************************)
Names == {"BTCUSDT", "ETHUSDT", "XBT", "XRPUSDT"}

QueryTimeframes == {"1m", "5m"}

INVALID_SYMBOL == "INVALID_SYMBOL"

INVALID_TIMEFRAME == "INVALID_TIMEFRAME"

\* the fault of ignoring count and handing out the whole series
get_candles_whole_series(symbol_name, timeframe, count) ==
    LET symbol_config == get_symbol_config(symbol_name)
        key == <<symbol_config.symbol, timeframe>>
        base == [made |-> TRUE, name |-> symbol_name, timeframe |-> timeframe, count |-> count,
                 raised |-> FALSE, success |-> FALSE, message |-> "", result |-> <<>>]
    IN  IF symbol_config = NotFound
        THEN [base EXCEPT !.message = INVALID_SYMBOL]
        ELSE IF timeframe \notin SeqToSet(symbol_config.timeframes)
        THEN [base EXCEPT !.message = INVALID_TIMEFRAME]
        ELSE IF key \notin DOMAIN data
        THEN [base EXCEPT !.raised = TRUE]
        ELSE [base EXCEPT !.success = TRUE, !.result = data[key]]

\* the fault of reporting a timeframe that is not configured as a bad symbol
get_candles_one_message(symbol_name, timeframe, count) ==
    LET symbol_config == get_symbol_config(symbol_name)
        key == <<symbol_config.symbol, timeframe>>
        base == [made |-> TRUE, name |-> symbol_name, timeframe |-> timeframe, count |-> count,
                 raised |-> FALSE, success |-> FALSE, message |-> "", result |-> <<>>]
    IN  IF symbol_config = NotFound
        THEN [base EXCEPT !.message = INVALID_SYMBOL]
        ELSE IF timeframe \notin SeqToSet(symbol_config.timeframes)
        THEN [base EXCEPT !.message = INVALID_SYMBOL]
        ELSE IF key \notin DOMAIN data
        THEN [base EXCEPT !.raised = TRUE]
        ELSE [base EXCEPT !.success = TRUE, !.result = tail(data[key], count)]

\* the ServiceResult get_candles returns, or raised = TRUE for the KeyError
get_candles(symbol_name, timeframe, count) ==
    LET symbol_config == get_symbol_config(symbol_name)
        key == <<symbol_config.symbol, timeframe>>
        base == [made |-> TRUE, name |-> symbol_name, timeframe |-> timeframe, count |-> count,
                 raised |-> FALSE, success |-> FALSE, message |-> "", result |-> <<>>]
    IN  IF symbol_config = NotFound
        THEN [base EXCEPT !.message = INVALID_SYMBOL]
        ELSE IF timeframe \notin SeqToSet(symbol_config.timeframes)
        THEN [base EXCEPT !.message = INVALID_TIMEFRAME]
        ELSE IF key \notin DOMAIN data
        THEN [base EXCEPT !.raised = TRUE]
        ELSE [base EXCEPT !.success = TRUE, !.result = tail(data[key], count)]

\* the fault of handing out the tail slice itself, which shares the series' memory
copy_is_view(key) == key

\* .copy(): the key whose series the returned frame shares memory with
copy(key) == NoKey

\* get_candles is synchronous: it runs between two turns of the event loop
\* and its result is in the caller's hands before any task runs again
GetCandles ==
    /\ ~call.made
    /\ \E symbol_name \in Names, timeframe \in QueryTimeframes, count \in 0..MaxCount :
         /\ call' = get_candles(symbol_name, timeframe, count)
         /\ held' = IF call'.success
                    THEN [rows |-> call'.result,
                          view |-> copy(<<get_symbol_config(symbol_name).symbol, timeframe>>)]
                    ELSE NoHeld
    /\ UNCHANGED <<data, pc, i, ping_task, pending_subs, subscribed, events, handled>>
    /\ UNCHANGED <<transport, last, push_task>>

\* the value the caller writes into the frame it was given
Scribble == "0.0"

\* the caller overwrites the close of the first row of the frame it holds;
\* a frame that is a view writes through to the series it was sliced from
CallerMutates ==
    /\ call.made
    /\ held.rows # <<>>
    /\ held.rows[1].close # Scribble
    /\ held' = [held EXCEPT !.rows[1].close = Scribble]
    /\ data' = IF held.view = NoKey THEN data
               ELSE [data EXCEPT ![held.view][Len(data[held.view]) - Len(held.rows) + 1].close
                                    = Scribble]
    /\ UNCHANGED <<pc, i, ping_task, pending_subs, subscribed, events, handled, call>>
    /\ UNCHANGED <<transport, last, push_task>>

\* the caller is done with the result
Return ==
    /\ call.made
    /\ call' = NoCall
    /\ held' = NoHeld
    /\ UNCHANGED <<data, pc, i, ping_task, pending_subs, subscribed, events, handled>>
    /\ UNCHANGED <<transport, last, push_task>>

Next ==
    \/ PrepareHistoricalData
    \/ ConnectToDataStreams
    \/ KlineSubscribe
    \/ HandleSocketMessage
    \/ PushDataEvent
    \/ GetCandles
    \/ CallerMutates
    \/ Return

Spec == Init /\ [][Next]_vars

\* the connection to the exchange is lost: the subscriptions go with it
TransportDrop ==
    /\ ~call.made
    /\ transport = "open"
    /\ transport' = "dropped"
    /\ subscribed' = {}
    /\ UNCHANGED <<data, pc, i, ping_task, pending_subs, events, handled, call>>
    /\ UNCHANGED <<last, push_task, held>>

\* the tasks of the proxy and the stream source, with a transport that can drop
StreamNext ==
    \/ PrepareHistoricalData
    \/ ConnectToDataStreams
    \/ KlineSubscribe
    \/ HandleSocketMessage
    \/ PushDataEvent
    \/ TransportDrop

\* the event loop runs every task that is ready
StreamSpec ==
    /\ Init
    /\ [][StreamNext]_vars
    /\ WF_vars(PrepareHistoricalData)
    /\ WF_vars(ConnectToDataStreams)
    /\ WF_vars(KlineSubscribe)
    /\ WF_vars(PushDataEvent)

TypeOK ==
    /\ pc \in {"fetch", "init", "done", "crashed"}
    /\ handled \in 0..MaxMsgs
    /\ transport \in {"closed", "open", "faulted", "dropped"}
    /\ push_task \in {"none", "pending", "done", "failed"}

(***************************************************************************)
(* Properties.                                                             *)
(***************************************************************************)
ConfiguredKeySet == SeqToSet(ConfiguredKeys)

AllSeeded == \A k \in ConfiguredKeySet : k \in DOMAIN data

KeyOf(e) == <<e.symbol, e.timeframe>>

\* the live updates merged so far for key k, oldest first
EventsFor(k) == SelectSeq(events, LAMBDA e : KeyOf(e) = k)

\* the stored row carries the six fields of the pushed candle
SameCandle(row, candle) ==
    /\ row.open_timestamp = candle.open_timestamp
    /\ row.open = candle.open
    /\ row.high = candle.high
    /\ row.low = candle.low
    /\ row.close = candle.close
    /\ row.volume = candle.volume

\* the step is a live merge: one event was handed to the sink
IsMerge == Len(events') = Len(events) + 1

Merged == events'[Len(events')]

Min(a, b) == IF a < b THEN a ELSE b

\* the key get_candles reads for a resolved call
CallKey == <<get_symbol_config(call.name).symbol, call.timeframe>>

IsCanonical(name) == \E j \in 1..Len(symbols_config) : symbols_config[j].symbol = name

IsAlias(name) == \E j \in 1..Len(symbols_config) : name \in SeqToSet(symbols_config[j].aliases)

\* C1: the rows get_candles returns are strictly ascending by open_timestamp,
\* hence no two of them share an open_timestamp (every seed of the model is
\* strictly ascending).
C1_WindowAscending ==
    (call.made /\ call.success) =>
        \A a, b \in 1..Len(call.result) :
            a < b => call.result[a].open_timestamp < call.result[b].open_timestamp

\* C2: a live merge of candle c into a series that already holds an entry
\* with c.open_timestamp replaces that entry by c in every field, keeps the
\* number of entries and leaves every other entry as it was.
C2_ReplaceInFull ==
    [][ (IsMerge /\ KeyOf(Merged) \in DOMAIN data
           /\ \E j \in 1..Len(data[KeyOf(Merged)]) :
                 data[KeyOf(Merged)][j].open_timestamp = Merged.candle.open_timestamp)
        => LET old == data[KeyOf(Merged)]
               new == data'[KeyOf(Merged)]
           IN  /\ Len(new) = Len(old)
               /\ \A j \in 1..Len(old) :
                     IF old[j].open_timestamp = Merged.candle.open_timestamp
                     THEN SameCandle(new[j], Merged.candle)
                     ELSE new[j] = old[j] ]_vars

\* C3: every series of the store has at most the retained number of entries
\* (500 in the source), after a seed as after a merge.
C3_SeriesBounded ==
    \A k \in DOMAIN data : Len(data[k]) <= TailCount

\* C4: after n live merges with strictly increasing timestamps on a key that
\* had no series, the series is exactly the min(n, retained) most recent of
\* those candles, in order.
C4_FreshKeyKeepsMostRecent ==
    \A k \in DOMAIN data \ ConfiguredKeySet :
        LET evs == EventsFor(k)
            n   == Len(evs)
            m   == Min(n, TailCount)
        IN  (\A a, b \in 1..n :
                a < b => evs[a].candle.open_timestamp < evs[b].candle.open_timestamp)
            => /\ Len(data[k]) = m
               /\ \A j \in 1..m : SameCandle(data[k][j], evs[n - m + j].candle)

\* more strictly increasing merges than are retained reached a fresh key
C4_Witness ==
    \E k \in DOMAIN data \ ConfiguredKeySet :
        LET evs == EventsFor(k)
        IN  /\ Len(evs) > TailCount
            /\ \A a, b \in 1..Len(evs) :
                  a < b => evs[a].candle.open_timestamp < evs[b].candle.open_timestamp

\* C5: a successful get_candles with count >= 0 on a series of length L
\* returns its last min(count, L) entries, in order, as stored.
C5_WindowIsTail ==
    (call.made /\ call.success) =>
        LET L == Len(data[CallKey])
            m == Min(call.count, L)
        IN  /\ Len(call.result) = m
            /\ \A j \in 1..m : call.result[j] = data[CallKey][L - m + j]

\* a window shorter than the series whose last bar is a live replacement
C5_Witness ==
    /\ call.made /\ call.success
    /\ call.count > 0
    /\ call.count < Len(data[CallKey])
    /\ EventsFor(CallKey) # <<>>
    /\ call.result[Len(call.result)].close = "31.5"

\* C6: get_candles for a configured symbol and one of its timeframes never
\* raises; with no series under the key it returns a successful empty result.
C6_NoFaultBeforeSeed ==
    (call.made /\ get_symbol_config(call.name) # NotFound
       /\ call.timeframe \in SeqToSet(get_symbol_config(call.name).timeframes))
    => /\ ~call.raised
       /\ call.success
       /\ (CallKey \notin DOMAIN data => call.result = <<>>)

\* C7: an unknown name gives InvalidSymbol, a known name with a timeframe
\* that is not configured for it gives InvalidTimeframe; neither raises and
\* the call leaves the store as it was.
C7_TypedFailures ==
    /\ [](call.made =>
            /\ (~IsCanonical(call.name) /\ ~IsAlias(call.name))
                 => (~call.raised /\ ~call.success /\ call.message = INVALID_SYMBOL
                     /\ call.result = <<>>)
            /\ ((IsCanonical(call.name) \/ IsAlias(call.name))
                  /\ \A j \in 1..Len(symbols_config) :
                        (symbols_config[j].symbol = call.name
                         \/ (~IsCanonical(call.name)
                             /\ call.name \in SeqToSet(symbols_config[j].aliases)))
                        => call.timeframe \notin SeqToSet(symbols_config[j].timeframes))
                 => (~call.raised /\ ~call.success /\ call.message = INVALID_TIMEFRAME
                     /\ call.result = <<>>))
    /\ [][(~call.made /\ call'.made) => data' = data]_vars

\* a call failed with InvalidTimeframe while the store held seeded series
C7_Witness ==
    /\ call.made
    /\ call.message = INVALID_TIMEFRAME
    /\ IsCanonical(call.name)
    /\ AllSeeded

\* the first symbol in configuration order that lists the alias
FirstListing(name) ==
    CHOOSE j \in 1..Len(symbols_config) :
        /\ name \in SeqToSet(symbols_config[j].aliases)
        /\ \A n \in 1..(j - 1) : name \notin SeqToSet(symbols_config[n].aliases)

C9_StartupBarrier ==
    /\ []((pc \in {"init", "done"} \/ ping_task \/ pending_subs # <<>>
             \/ subscribed # {} \/ events # <<>>) => AllSeeded)
    /\ [][(IsMerge /\ KeyOf(Merged) \in ConfiguredKeySet)
            => KeyOf(Merged) \in DOMAIN data]_vars

\* a live candle was merged into a configured key
C9_Witness ==
    /\ subscribed # {}
    /\ \E n \in 1..Len(events) : KeyOf(events[n]) \in ConfiguredKeySet

\* C10: once the loader task has ended on a failed fetch or parse of one key,
\* every other configured key has been loaded and seeded.
C10_FailureIsolated ==
    pc = "crashed" =>
        \A n \in 1..Len(ConfiguredKeys) : n # i => ConfiguredKeys[n] \in DOMAIN data

\* the row a pushed candle was built from; the label is read back from the text
RowOfCandle(candle) ==
    << [ open_datetime  |-> candle.open_datetime[2],
         open_timestamp |-> candle.open_timestamp,
         open |-> candle.open, high |-> candle.high, low |-> candle.low,
         close |-> candle.close, volume |-> candle.volume ] >>

\* the step is one invocation of the socket handler
IsHandled == handled' = handled + 1

IsKlineChannel(m) == "c" \in DOMAIN m

\* C11: every merged candle update hands exactly one event to the sink, in
\* the step of its merge, carrying the exchange name and the symbol,
\* timeframe and candle of that merge; nothing else emits an event.
C11_OneEventPerMerge ==
    [][ /\ (events' # events) =>
              /\ IsMerge /\ IsHandled
              /\ SubSeq(events', 1, Len(events)) = events
              /\ push_task' = "pending"
              /\ IsKlineChannel(last'.msg)
              /\ Merged.exchange = exchange_name
              /\ Merged.symbol = last'.msg.c[3]
              /\ get_socket_interval_from_timeframe(Merged.timeframe) = last'.msg.c[4]
              /\ Merged.candle.open_timestamp = last'.msg.d.k.t
              /\ Merged.candle.open = last'.msg.d.k.o
              /\ Merged.candle.high = last'.msg.d.k.h
              /\ Merged.candle.low = last'.msg.d.k.l
              /\ Merged.candle.close = last'.msg.d.k.c
              /\ Merged.candle.volume = last'.msg.d.k.v
              /\ data' = merge(data, KeyOf(Merged), RowOfCandle(Merged.candle))
        /\ (IsHandled /\ IsKlineChannel(last'.msg) /\ ~last'.raised) => IsMerge
        /\ (IsHandled /\ data' # data) => IsMerge ]_vars

\* candle updates were merged and pushed, and a message of another kind was
\* handled without a push
C11_Witness ==
    /\ Len(events) >= 2
    /\ handled > Len(events)
    /\ push_task = "pending"

\* C12: get_candles and whatever the caller then does to the rows it was
\* given leave every series of the store unchanged, and the same call made
\* again returns what it returned before.
C12_ReadOnlyCopy ==
    /\ [][(call.made \/ call'.made) => data' = data]_vars
    /\ [](call.made => call = get_candles(call.name, call.timeframe, call.count))

\* the caller has overwritten a row of the frame it holds
C12_Witness ==
    /\ call.made /\ call.success
    /\ held.rows # call.result
    /\ held.rows[1].close = Scribble

OutsideVocabulary == {"2m", "1h", "1D", "Min2", "min1", "Hour1", ""}

\* the two tables of the codec are inverse bijections over the 8 entries and
\* raise on anything else
CodecTablesInverse ==
    /\ get_socket_interval_from_timeframe("1d") = "Day1"
    /\ Cardinality(Timeframes) = 8 /\ Cardinality(Intervals) = 8
    /\ \A tf \in Timeframes :
          /\ get_socket_interval_from_timeframe(tf) \in Intervals
          /\ get_timeframe_from_socket_interval(get_socket_interval_from_timeframe(tf)) = tf
    /\ \A iv \in Intervals :
          /\ get_timeframe_from_socket_interval(iv) \in Timeframes
          /\ get_socket_interval_from_timeframe(get_timeframe_from_socket_interval(iv)) = iv
    /\ \A x \in OutsideVocabulary \cup Intervals :
          get_socket_interval_from_timeframe(x) = "KeyError"
    /\ \A x \in OutsideVocabulary \cup Timeframes :
          get_timeframe_from_socket_interval(x) = "KeyError"

\* C13: "1d" maps to "Day1"; a timeframe of the vocabulary translated to its
\* interval code and back is itself, and so is an interval code translated
\* to its timeframe and back; a value outside the vocabulary raises in
\* either direction, also when it arrives in a message.
C13_CodecRoundTrip ==
    /\ CodecTablesInverse
    /\ \A n \in 1..Len(events) : events[n].timeframe \in Timeframes
    /\ \A t \in subscribed : t.interval \in Intervals
    /\ (IsKlineChannel(last.msg) /\ last.msg.c[4] \notin Intervals) => last.raised

\* both directions were applied, and an interval outside the vocabulary raised
C13_Witness ==
    /\ [symbol |-> "ETHUSDT", interval |-> "Min5"] \in subscribed
    /\ events # <<>>
    /\ last.raised

\* C14: whatever the state of the push handed to the sink (pending, failed
\* or done), the handler takes the next message, and a push that ends
\* changes nothing of the store or the stream.
C14_SinkNeverBlocks ==
    /\ []((~call.made /\ transport = "open" /\ subscribed # {} /\ handled < MaxMsgs)
            => ENABLED HandleSocketMessage)
    /\ [][(push_task = "pending" /\ push_task' \in {"done", "failed"})
            => UNCHANGED <<data, events, handled, transport, subscribed, last>>]_vars

\* the latest push has failed and the handler still has messages to take
C14_Witness ==
    /\ push_task = "failed"
    /\ Len(events) >= 2
    /\ ~call.made /\ transport = "open" /\ handled < MaxMsgs

\* C15: a kline channel message goes to the merge; a keepalive
\* acknowledgment or an unrecognised payload leaves the store, the events
\* and the stream as they were and does not raise.
C15_ThreeKinds ==
    [][ IsHandled =>
          IF IsKlineChannel(last'.msg)
          THEN last'.raised \/ IsMerge
          ELSE /\ data' = data
               /\ events' = events
               /\ push_task' = push_task
               /\ ~last'.raised
               /\ transport' = "open" ]_vars

\* an unrecognised payload was handled after live candles had been merged
C15_Witness ==
    /\ ~IsKlineChannel(last.msg)
    /\ last.msg.msg = "no such channel"
    /\ events # <<>>
    /\ transport = "open"

\* the pairs of the configuration, as topics
ExpectedTopics ==
    UNION { { [symbol |-> symbols_config[j].symbol,
               interval |-> get_socket_interval_from_timeframe(tf)] :
                 tf \in SeqToSet(symbols_config[j].timeframes) } :
            j \in 1..Len(symbols_config) }

\* C16: no subscribe request exists before the connection is initialised;
\* from then on the requests created and issued are exactly one per
\* configured pair, each with the interval code of its timeframe.
C16_OneSubscribePerPair ==
    /\ (pc # "done") => (pending_subs = <<>> /\ subscribed = {})
    /\ (pc = "done") =>
          /\ SeqToSet(pending_subs) \cup subscribed = ExpectedTopics
          /\ Len(pending_subs) + Cardinality(subscribed) = Cardinality(ExpectedTopics)
    /\ \A t \in SeqToSet(pending_subs) \cup subscribed :
          \E j \in 1..Len(symbols_config) :
             /\ symbols_config[j].symbol = t.symbol
             /\ get_timeframe_from_socket_interval(t.interval)
                   \in SeqToSet(symbols_config[j].timeframes)

\* every subscribe task has run
C16_Witness ==
    /\ pc = "done"
    /\ pending_subs = <<>>
    /\ subscribed = ExpectedTopics

\* C17: whenever the transport has dropped, the coordinator connects and
\* subscribes again and streams again.
C17_ReconnectsAfterDrop ==
    (transport = "dropped") ~> (transport = "open" /\ subscribed # {})

\* C18: a kline message whose interval code is outside the vocabulary is
\* skipped: store and events unchanged, nothing raised, the stream goes on.
C18_BadIntervalSkipped ==
    [][ (IsHandled /\ IsKlineChannel(last'.msg) /\ last'.msg.c[4] \notin Intervals)
        => /\ data' = data
           /\ events' = events
           /\ ~last'.raised
           /\ transport' = "open" ]_vars

\* C19: a live merge changes the series of its key only; every other
\* series stays as it was and no other key appears or disappears.
C19_MergeTouchesOneKey ==
    [][ IsMerge =>
          /\ DOMAIN data' = DOMAIN data \cup {KeyOf(Merged)}
          /\ \A k \in DOMAIN data \ {KeyOf(Merged)} : data'[k] = data[k] ]_vars

\* a merge happened next to a series longer than a merge would leave it
C19_Witness ==
    /\ events # <<>>
    /\ \E k \in DOMAIN data :
          /\ k # KeyOf(events[Len(events)])
          /\ Len(data[k]) > TailCount

\* C20: every key of the store is a configured (symbol, timeframe) pair.
C20_OnlyConfiguredKeys ==
    \A k \in DOMAIN data : k \in ConfiguredKeySet

====
